---- MODULE Spec2Model ----
(***************************************************************************)
(* A model of the K-pop girl group scraping and cleaning pipeline:         *)
(*   src/scraping/bugs_scraping.py  (BugsMusicScraper, main)               *)
(*   src/scraping/cleaning.py       (KpopDataCleaner)                      *)
(*                                                                         *)
(* Text is a sequence of one-character strings.  A Hangul syllable is one  *)
(* character, written here by its romanisation ("il","bon" is the two      *)
(* character word for Japan).  A DataFrame is the sequence of its rows, a  *)
(* row a record of its columns.                                            *)
(***************************************************************************)
EXTENDS Integers, Sequences, FiniteSets, TLC

(***************************************************************************)
(* Bounds of the model.                                                    *)
(***************************************************************************)
\* artists in the input list
MaxArtists == 2
\* album blocks and title elements the site shows, over all the pages of a run
MaxItems == 3
\* rows of the three CSV files together
MaxFileRows == 4
\* rows of the frame filter_data is given
MaxFrameRows == 2

(***************************************************************************)
(* Python and pandas values.                                               *)
(***************************************************************************)
\* Python's None: what BeautifulSoup's find returns when nothing matches.
NoneVal == <<"None">>
\* pandas' missing value, as a left join fills it in.
NaN == <<"NaN">>

Uppers == <<"A","B","C","D","E","F","G","H","I","J","K","L","M",
            "N","O","P","Q","R","S","T","U","V","W","X","Y","Z">>
Lowers == <<"a","b","c","d","e","f","g","h","i","j","k","l","m",
            "n","o","p","q","r","s","t","u","v","w","x","y","z">>

\* str.lower of one character
Lower(c) ==
    IF \E i \in DOMAIN Uppers : Uppers[i] = c
    THEN Lowers[CHOOSE i \in DOMAIN Uppers : Uppers[i] = c]
    ELSE c

RECURSIVE Flatten(_)
\* pd.concat of a list of frames, and list concatenation in general
Flatten(ss) == IF ss = <<>> THEN <<>> ELSE Head(ss) \o Flatten(Tail(ss))

RECURSIVE LStrip(_, _)
\* str.lstrip(chars): drops every leading character that is in chars
LStrip(s, chars) ==
    IF s = <<>> \/ Head(s) \notin chars THEN s ELSE LStrip(Tail(s), chars)

RECURSIVE RStrip(_, _)
\* str.rstrip(chars)
RStrip(s, chars) ==
    IF s = <<>> \/ s[Len(s)] \notin chars THEN s
    ELSE RStrip(SubSeq(s, 1, Len(s) - 1), chars)

\* str.strip(chars)
Strip(s, chars) == RStrip(LStrip(s, chars), chars)

\* the characters str.strip() removes when given no argument
Whitespace == {" ", "\n", "\r", "\t"}

\* s has the literal p at position i
LiteralAt(s, p, i) ==
    /\ i + Len(p) - 1 <= Len(s)
    /\ \A k \in 1..Len(p) : s[i + k - 1] = p[k]

\* the literal p occurs in s
Find(s, p) == \E i \in 1..(Len(s) + 1) : LiteralAt(s, p, i)

\* str.split(d)[0]: the text before the first d
SplitFirst(s, d) ==
    IF \E i \in 1..Len(s) : LiteralAt(s, d, i)
    THEN LET i == CHOOSE j \in 1..Len(s) :
                      /\ LiteralAt(s, d, j)
                      /\ \A k \in 1..(j - 1) : ~LiteralAt(s, d, k)
         IN  SubSeq(s, 1, i - 1)
    ELSE s

RECURSIVE Replace(_, _, _)
\* str.replace(old, new), old not empty
Replace(s, old, new) ==
    IF s = <<>> THEN <<>>
    ELSE IF LiteralAt(s, old, 1)
         THEN new \o Replace(SubSeq(s, Len(old) + 1, Len(s)), old, new)
         ELSE <<Head(s)>> \o Replace(Tail(s), old, new)

\* A regular expression of the kind the code uses: literal characters and
\* "." (any character but a line break).  re matches s at position i.
RegexAt(s, re, i, ignoreCase) ==
    /\ i + Len(re) - 1 <= Len(s)
    /\ \A k \in 1..Len(re) :
          \/ re[k] = "." /\ s[i + k - 1] # "\n"
          \/ re[k] # "." /\ IF ignoreCase
                            THEN Lower(s[i + k - 1]) = Lower(re[k])
                            ELSE s[i + k - 1] = re[k]

\* Series.str.contains(pat) on one value: pat is the alternation a|b|... of
\* the regular expressions in alts, searched anywhere in s.
StrContains(s, alts, ignoreCase) ==
    \E a \in alts : \E i \in 1..(Len(s) + 1) : RegexAt(s, a, i, ignoreCase)

\* DataFrame.drop_duplicates(subset): keeps the first row of each key
DropDuplicates(df, Key(_)) ==
    LET keep == {i \in 1..Len(df) : \A j \in 1..(i - 1) : Key(df[j]) # Key(df[i])}
        RECURSIVE Pick(_)
        Pick(i) == IF i > Len(df) THEN <<>>
                   ELSE (IF i \in keep THEN <<df[i]>> ELSE <<>>) \o Pick(i + 1)
    IN  Pick(1)

\* DataFrame.merge(right, how='left'): every left row in order, once per right
\* row that matches it in the right's order, or once with the right's columns
\* missing when none matches.
LeftMerge(left, right, Match(_, _), Combine(_, _), Fill(_)) ==
    Flatten([i \in 1..Len(left) |->
        LET ms == SelectSeq(right, LAMBDA r : Match(left[i], r))
        IN  IF ms = <<>> THEN <<Fill(left[i])>>
            ELSE [j \in 1..Len(ms) |-> Combine(left[i], ms[j])]])

\* all sequences over S of length 0..n
SeqsUpTo(S, n) == UNION {[1..k -> S] : k \in 0..n}

(***************************************************************************)
(* bugs_scraping.py: the site, as the scraper sees it.                     *)
(***************************************************************************)
ArtistIdPool == << <<"g","1">>, <<"g","2">>, <<"g","3">>, <<"g","4">> >>
AlbumIdPool == { <<"a","1">>, <<"a","2">> }

\* the text of a div.albumTitle: a plain title (wrapped in the line break the
\* markup carries) and a soundtrack title
PlainTitle == <<"\n","A","\n">>
OstTitle == <<"A"," ","O","S","T">>
PlainArtist == <<"\n","G","\n">>
VariousArtists == <<"V","a","r","i","o","u","s"," ","A","r","t","i","s","t","s">>
TimeTag == <<"<time>">>
TypeTag == <<"<span>">>

\* one <figure class="albumInfo">: its albumid attribute and its four
\* descendants, NoneVal for one the markup lacks.  The pages of a run hold
\* a plain block per album id, a soundtrack, a compilation, and the blocks
\* that lack one of the three parts whose absence the loop does not survive.
PlainBlock ==
    [albumid |-> CHOOSE a \in AlbumIdPool : TRUE, albumTitle |-> PlainTitle,
     artist |-> PlainArtist, time |-> TimeTag, albumType |-> TypeTag]

CompleteBlocks ==
    {[PlainBlock EXCEPT !.albumid = a] : a \in AlbumIdPool}
        \cup {[PlainBlock EXCEPT !.albumTitle = OstTitle],
              [PlainBlock EXCEPT !.artist = VariousArtists]}

AlbumBlocks ==
    CompleteBlocks \cup {[PlainBlock EXCEPT !.albumid = NoneVal],
                         [PlainBlock EXCEPT !.albumTitle = NoneVal],
                         [PlainBlock EXCEPT !.artist = NoneVal]}

\* an artist's album page: at most n album blocks in document order
AlbumListPages(n) == SeqsUpTo(AlbumBlocks, n)

\* the argument of bugs.music.listen in a title's onclick attribute
ListenPrefix ==
    <<"b","u","g","s",".","w","i","s","e","l","o","g",".","a","r","e","a","(",
      "'","l","i","s","t","_","t","r","_","0","9","_","a","b","'",")",";",
      "b","u","g","s",".","m","u","s","i","c",".","l","i","s","t","e","n","(","'">>
ListenSuffix == <<"'",",","t","r","u","e",")",";">>
\* the onclick a title carries when the player asks for a login instead
LoginOnclick == <<"s","h","o","w","L","o","g","i","n","L","a","y","e","r","(",")",";">>
TrackIdPool == { <<"3","1">>, <<"9","2">> }
Onclicks == {ListenPrefix \o t \o ListenSuffix : t \in TrackIdPool} \cup {LoginOnclick, NoneVal}

\* one <p class="title">: the onclick of its link and its text
TitleElems == [onclick : Onclicks, text : {<<"\n","S","\n">>}]

InfoCells == << <<"c","0">>, <<"c","1">>, <<"R","o","c","k">>, <<"P","o","p">>,
                <<"c","4">>, <<"D">>, <<"A","g">>, <<"3","0",":","0","0">> >>
ThumbnailSrc == <<"u","r","l">>

\* an album page: the src of li.big's image, the td texts of the info tables
\* and at most n title elements
AlbumPages(n) ==
    [thumbnail : {ThumbnailSrc, NoneVal},
     cells : {InfoCells, SubSeq(InfoCells, 1, Len(InfoCells) - 1)},
     titles : SeqsUpTo(TitleElems, n)]
EmptyAlbumPage == [thumbnail |-> NoneVal, cells |-> <<>>, titles |-> <<>>]

\* a track page: the text of its <time> and of its lyrics container
TrackPages ==
    [time : {<<"0","3",":","1","5">>, NoneVal},
     lyrics : {<<"l","a","\r","\n","l","a">>, NoneVal}]
EmptyTrackPage == [time |-> NoneVal, lyrics |-> NoneVal]

\* what requests.get may answer: the page, a success without a body, or an
\* error status
Responses(pages, empty) ==
    {[status_code |-> 200, body |-> p] : p \in pages}
        \cup {[status_code |-> 204, body |-> empty],
              [status_code |-> 404, body |-> empty]}

(***************************************************************************)
(* BugsMusicScraper                                                        *)
(***************************************************************************)
\* Response.raise_for_status raises for the 4xx and 5xx statuses
raise_for_status(status_code) == status_code >= 400 /\ status_code < 600

\* _get_soup: raised when raise_for_status raises, else the parsed page;
\* slept tells whether time.sleep(request_delay) ran.
get_soup(response) ==
    IF response.status_code # 200 /\ raise_for_status(response.status_code)
    THEN [raised |-> TRUE, soup |-> NoneVal, slept |-> FALSE]
    ELSE [raised |-> FALSE, soup |-> response.body, slept |-> TRUE]

\* one pass of the loop over the album blocks: raises when the block lacks the
\* albumid attribute ([] on a missing attribute), its title or its artist
\* (.text of None)
AlbumBlockRaises(b) ==
    b.albumid = NoneVal \/ b.albumTitle = NoneVal \/ b.artist = NoneVal

AlbumRow(b, artist_id) ==
    [album_id |-> b.albumid,
     album_title |-> Strip(b.albumTitle, {"\n"}),
     artist_name |-> Strip(b.artist, {"\n"}),
     release_date |-> b.time,
     type |-> b.albumType,
     artist_id |-> artist_id]

\* get_artist_albums: no try, an exception leaves the method
get_artist_albums(artist_id, response) ==
    LET got == get_soup(response)
    IN  IF got.raised \/ \E i \in 1..Len(got.soup) : AlbumBlockRaises(got.soup[i])
        THEN [raised |-> TRUE, df |-> <<>>, slept |-> got.slept]
        ELSE [raised |-> FALSE,
              df |-> [i \in 1..Len(got.soup) |-> AlbumRow(got.soup[i], artist_id)],
              slept |-> got.slept]

\* get_album_details: None (here: no frame) on any exception
get_album_details(album_id, response) ==
    LET got == get_soup(response)
    IN  IF got.raised \/ got.soup.thumbnail = NoneVal \/ Len(got.soup.cells) < 8
        THEN [none |-> TRUE, df |-> <<>>, slept |-> got.slept]
        ELSE [none |-> FALSE,
              df |-> << [album_id |-> album_id,
                         genre |-> got.soup.cells[3],
                         style |-> got.soup.cells[4],
                         distributor |-> got.soup.cells[6],
                         agency |-> got.soup.cells[7],
                         total_duration |-> got.soup.cells[8],
                         thumbnail |-> got.soup.thumbnail] >>,
              slept |-> got.slept]

\* the characters of the lstrip argument in get_album_tracks
ListenPrefixChars == {ListenPrefix[i] : i \in DOMAIN ListenPrefix}

\* the track id cut out of an onclick attribute
TrackIdOf(onclick) == SplitFirst(LStrip(onclick, ListenPrefixChars), <<"'">>)

\* get_album_tracks: None on any exception
get_album_tracks(album_id, response) ==
    LET got == get_soup(response)
    IN  IF got.raised \/ \E i \in 1..Len(got.soup.titles) : got.soup.titles[i].onclick = NoneVal
        THEN [none |-> TRUE, df |-> <<>>, slept |-> got.slept]
        ELSE [none |-> FALSE,
              df |-> [i \in 1..Len(got.soup.titles) |->
                         [album_id |-> album_id,
                          track_id |-> TrackIdOf(got.soup.titles[i].onclick),
                          track_title |-> Replace(got.soup.titles[i].text, <<"\n">>, <<>>)]],
              slept |-> got.slept]

\* get_track_lyrics: None on any exception
get_track_lyrics(track_id, response) ==
    LET got == get_soup(response)
    IN  IF got.raised \/ got.soup.time = NoneVal \/ got.soup.lyrics = NoneVal
        THEN [none |-> TRUE, df |-> <<>>, slept |-> got.slept]
        ELSE [none |-> FALSE,
              df |-> << [track_id |-> track_id,
                         duration |-> got.soup.time,
                         lyrics |-> Replace(got.soup.lyrics, <<"\r","\n">>, <<" ">>)] >>,
              slept |-> got.slept]

(***************************************************************************)
(* The state.  bugs_scraping.main: pc is the step main is in ("step1" to   *)
(* "step4" as its comments number them, "done" after the CSV files are     *)
(* written, "aborted" when an exception left main), idx the position of    *)
(* the running loop (from 1).  fetch_log lists the calls of _get_soup, and *)
(* slept tells whether the latest one reached its time.sleep; abortCause   *)
(* names the statement an exception came from.  scraped_lyrics_df is       *)
(* main's lyrics_df.                                                       *)
(***************************************************************************)
VARIABLES pc, idx, artist_id_list, artist_album_dfs, album_clean,
          album_details, album_final, album_tracks, album_track_df,
          lyrics_dfs, scraped_lyrics_df, fetch_log, slept, abortCause

scrapeVars == <<pc, idx, artist_id_list, artist_album_dfs, album_clean,
                album_details, album_final, album_tracks, album_track_df,
                lyrics_dfs, scraped_lyrics_df, fetch_log, slept, abortCause>>

(***************************************************************************)
(* get_artist_albums on one response: page_response is what requests.get   *)
(* answered, extracted what the method returned, xpc whether it has run.   *)
(***************************************************************************)
VARIABLES page_response, extracted, xpc

albumListVars == <<page_response, extracted, xpc>>

(***************************************************************************)
(* cleaning.py, KpopDataCleaner.process_data: album_file, track_file and   *)
(* lyrics_file are the contents of the three CSV files, album_df, track_df,*)
(* lyrics_df and df_total the frames of the same names, cpc the statement  *)
(* process_data is at ("failed" once it has returned None).  once and      *)
(* twice hold the results of clean_track_ids and of clean_track_ids on     *)
(* that result.                                                            *)
(***************************************************************************)
VARIABLES album_file, track_file, lyrics_file, album_df, track_df, lyrics_df,
          df_total, cpc, once, twice

cleanVars == <<album_file, track_file, lyrics_file, album_df, track_df,
               lyrics_df, df_total, cpc, once, twice>>

(***************************************************************************)
(* KpopDataCleaner.filter_data, one step at a time: df_in is the frame     *)
(* handed in, df the frame so far, applied the steps that have run.        *)
(***************************************************************************)
VARIABLES df_in, df, applied

filterVars == <<df_in, df, applied>>

vars == <<scrapeVars, albumListVars, cleanVars, filterVars>>

\* the parts of the state a specification does not use stay as they are here
ScrapeIdle ==
    /\ pc = "idle" /\ idx = 0 /\ artist_id_list = <<>> /\ artist_album_dfs = <<>>
    /\ album_clean = <<>> /\ album_details = <<>> /\ album_final = <<>>
    /\ album_tracks = <<>> /\ album_track_df = <<>> /\ lyrics_dfs = <<>>
    /\ scraped_lyrics_df = <<>> /\ fetch_log = <<>> /\ slept = FALSE /\ abortCause = "none"

AlbumListIdle == page_response = <<>> /\ extracted = <<>> /\ xpc = "idle"

CleanIdle ==
    /\ album_file = <<>> /\ track_file = <<>> /\ lyrics_file = <<>>
    /\ album_df = <<>> /\ track_df = <<>> /\ lyrics_df = <<>> /\ df_total = <<>>
    /\ cpc = "idle" /\ once = <<>> /\ twice = <<>>

FilterIdle == df_in = <<>> /\ df = <<>> /\ applied = {}

\* main, lines 189-198: the artist list is loaded, nothing is fetched yet
ScrapeInit ==
    /\ pc = "step1"
    /\ idx = 1
    /\ artist_id_list \in {SubSeq(ArtistIdPool, 1, n) : n \in 0..MaxArtists}
    /\ artist_album_dfs = <<>>
    /\ album_clean = <<>>
    /\ album_details = <<>>
    /\ album_final = <<>>
    /\ album_tracks = <<>>
    /\ album_track_df = <<>>
    /\ lyrics_dfs = <<>>
    /\ scraped_lyrics_df = <<>>
    /\ fetch_log = <<>>
    /\ slept = FALSE
    /\ abortCause = "none"
    /\ AlbumListIdle /\ CleanIdle /\ FilterIdle

\* the request a stage makes for one identifier
Request(stage, id) == [stage |-> stage, id |-> id]

\* an exception leaves main: nothing more is fetched, no file is written
Abort(cause) ==
    /\ pc' = "aborted"
    /\ abortCause' = cause

\* the album ids the loop of step 2 walks: album_clean.album_id.tolist()
DetailIds == [i \in 1..Len(album_clean) |-> album_clean[i].album_id]

\* the album ids the loop of step 3 walks: album_final.album_id.tolist()
TrackListIds == [i \in 1..Len(album_final) |-> album_final[i].album_id]

\* step 4 walking the album_id column of the track table
LyricsIdsFromAlbumColumn == [i \in 1..Len(album_track_df) |-> album_track_df[i].album_id]

\* the track ids the loop of step 4 walks: album_track_df.track_id.tolist()
LyricsIds == [i \in 1..Len(album_track_df) |-> album_track_df[i].track_id]

\* lines 204-207, one pass: the call is not guarded
CollectArtistAlbums ==
    /\ pc = "step1"
    /\ idx <= Len(artist_id_list)
    /\ \E response \in Responses(AlbumListPages(MaxItems - Len(Flatten(artist_album_dfs))), <<>>) :
          LET artist_df == get_artist_albums(artist_id_list[idx], response)
          IN  /\ fetch_log' = Append(fetch_log, Request("artist_albums", artist_id_list[idx]))
              /\ slept' = artist_df.slept
              /\ IF artist_df.raised
                 THEN /\ Abort("get_artist_albums")
                      /\ UNCHANGED <<idx, artist_album_dfs>>
                 ELSE /\ artist_album_dfs' = Append(artist_album_dfs, artist_df.df)
                      /\ idx' = idx + 1
                      /\ UNCHANGED <<pc, abortCause>>
    /\ UNCHANGED <<artist_id_list, album_clean, album_details, album_final,
                   album_tracks, album_track_df, lyrics_dfs, scraped_lyrics_df>>
    /\ UNCHANGED <<albumListVars, cleanVars, filterVars>>

\* lines 213-216: the four exclusions of the album dataset
AlbumIsKept(row) ==
    /\ ~StrContains(row.album_title, {<<"gwon","ri","eop","neun">>}, FALSE)
    /\ ~StrContains(row.album_title, {<<" ","O","S","T">>}, FALSE)
    /\ ~StrContains(row.album_title, {<<"il","bon">>}, FALSE)
    /\ ~StrContains(row.artist_name, {VariousArtists}, FALSE)

\* lines 210-217: pd.concat raises on an empty list
CombineAlbums ==
    /\ pc = "step1"
    /\ idx > Len(artist_id_list)
    /\ IF artist_album_dfs = <<>>
       THEN /\ Abort("concat_albums")
            /\ UNCHANGED <<idx, album_clean>>
       ELSE /\ album_clean' = SelectSeq(Flatten(artist_album_dfs), AlbumIsKept)
            /\ pc' = "step2"
            /\ idx' = 1
            /\ UNCHANGED abortCause
    /\ UNCHANGED <<artist_id_list, artist_album_dfs, album_details, album_final,
                   album_tracks, album_track_df, lyrics_dfs, scraped_lyrics_df,
                   fetch_log, slept>>
    /\ UNCHANGED <<albumListVars, cleanVars, filterVars>>

\* lines 223-229, one pass
CollectAlbumDetails ==
    /\ pc = "step2"
    /\ idx <= Len(DetailIds)
    /\ \E response \in Responses(AlbumPages(0), EmptyAlbumPage) :
          LET album_detail == get_album_details(DetailIds[idx], response)
          IN  /\ fetch_log' = Append(fetch_log, Request("album_details", DetailIds[idx]))
              /\ slept' = album_detail.slept
              /\ album_details' = IF album_detail.none THEN album_details
                                  ELSE Append(album_details, album_detail.df)
    /\ idx' = idx + 1
    /\ UNCHANGED <<pc, abortCause, artist_id_list, artist_album_dfs, album_clean,
                   album_final, album_tracks, album_track_df, lyrics_dfs, scraped_lyrics_df>>
    /\ UNCHANGED <<albumListVars, cleanVars, filterVars>>

\* the columns of an album row joined with a detail row
WithDetail(album, detail) ==
    [album_id |-> album.album_id, album_title |-> album.album_title,
     artist_name |-> album.artist_name, release_date |-> album.release_date,
     type |-> album.type, artist_id |-> album.artist_id,
     genre |-> detail.genre, style |-> detail.style,
     distributor |-> detail.distributor, agency |-> detail.agency,
     total_duration |-> detail.total_duration, thumbnail |-> detail.thumbnail]

NoDetail ==
    [genre |-> NaN, style |-> NaN, distributor |-> NaN, agency |-> NaN,
     total_duration |-> NaN, thumbnail |-> NaN]

\* lines 234-236: the left join on album_id, then one row per
\* (album_id, album_title)
MergeDetails(albums, details) ==
    DropDuplicates(
        LeftMerge(albums, details,
                  LAMBDA a, d : a.album_id = d.album_id,
                  LAMBDA a, d : WithDetail(a, d),
                  LAMBDA a : WithDetail(a, NoDetail)),
        LAMBDA r : <<r.album_id, r.album_title>>)

\* lines 231-236
MergeAlbumDetails ==
    /\ pc = "step2"
    /\ idx > Len(DetailIds)
    /\ IF album_details = <<>>
       THEN /\ Abort("concat_details")
            /\ UNCHANGED <<idx, album_final>>
       ELSE /\ album_final' = MergeDetails(album_clean, Flatten(album_details))
            /\ pc' = "step3"
            /\ idx' = 1
            /\ UNCHANGED abortCause
    /\ UNCHANGED <<artist_id_list, artist_album_dfs, album_clean, album_details,
                   album_tracks, album_track_df, lyrics_dfs, scraped_lyrics_df,
                   fetch_log, slept>>
    /\ UNCHANGED <<albumListVars, cleanVars, filterVars>>

\* lines 242-248, one pass
CollectAlbumTracks ==
    /\ pc = "step3"
    /\ idx <= Len(TrackListIds)
    /\ \E response \in Responses(AlbumPages(MaxItems - Len(Flatten(artist_album_dfs))
                                              - Len(Flatten(album_tracks))), EmptyAlbumPage) :
          LET tracks == get_album_tracks(TrackListIds[idx], response)
          IN  /\ fetch_log' = Append(fetch_log, Request("album_tracks", TrackListIds[idx]))
              /\ slept' = tracks.slept
              /\ album_tracks' = IF tracks.none THEN album_tracks
                                 ELSE Append(album_tracks, tracks.df)
    /\ idx' = idx + 1
    /\ UNCHANGED <<pc, abortCause, artist_id_list, artist_album_dfs, album_clean,
                   album_details, album_final, album_track_df, lyrics_dfs, scraped_lyrics_df>>
    /\ UNCHANGED <<albumListVars, cleanVars, filterVars>>

\* line 250
CombineTracks ==
    /\ pc = "step3"
    /\ idx > Len(TrackListIds)
    /\ IF album_tracks = <<>>
       THEN /\ Abort("concat_tracks")
            /\ UNCHANGED <<idx, album_track_df>>
       ELSE /\ album_track_df' = Flatten(album_tracks)
            /\ pc' = "step4"
            /\ idx' = 1
            /\ UNCHANGED abortCause
    /\ UNCHANGED <<artist_id_list, artist_album_dfs, album_clean, album_details,
                   album_final, album_tracks, lyrics_dfs, scraped_lyrics_df,
                   fetch_log, slept>>
    /\ UNCHANGED <<albumListVars, cleanVars, filterVars>>

\* lines 256-262, one pass
CollectLyrics ==
    /\ pc = "step4"
    /\ idx <= Len(LyricsIds)
    /\ \E response \in Responses(TrackPages, EmptyTrackPage) :
          LET lyrics == get_track_lyrics(LyricsIds[idx], response)
          IN  /\ fetch_log' = Append(fetch_log, Request("track_lyrics", LyricsIds[idx]))
              /\ slept' = lyrics.slept
              /\ lyrics_dfs' = IF lyrics.none THEN lyrics_dfs
                               ELSE Append(lyrics_dfs, lyrics.df)
    /\ idx' = idx + 1
    /\ UNCHANGED <<pc, abortCause, artist_id_list, artist_album_dfs, album_clean,
                   album_details, album_final, album_tracks, album_track_df, scraped_lyrics_df>>
    /\ UNCHANGED <<albumListVars, cleanVars, filterVars>>

\* lines 265-272: the three files are written after the last concat only
CombineLyrics ==
    /\ pc = "step4"
    /\ idx > Len(LyricsIds)
    /\ IF lyrics_dfs = <<>>
       THEN /\ Abort("concat_lyrics")
            /\ UNCHANGED scraped_lyrics_df
       ELSE /\ scraped_lyrics_df' = Flatten(lyrics_dfs)
            /\ pc' = "done"
            /\ UNCHANGED abortCause
    /\ UNCHANGED <<idx, artist_id_list, artist_album_dfs, album_clean, album_details,
                   album_final, album_tracks, album_track_df, lyrics_dfs,
                   fetch_log, slept>>
    /\ UNCHANGED <<albumListVars, cleanVars, filterVars>>

ScrapeNext ==
    \/ CollectArtistAlbums
    \/ CombineAlbums
    \/ CollectAlbumDetails
    \/ MergeAlbumDetails
    \/ CollectAlbumTracks
    \/ CombineTracks
    \/ CollectLyrics
    \/ CombineLyrics

Spec == ScrapeInit /\ [][ScrapeNext]_vars

(***************************************************************************)
(* Properties of bugs_scraping.main                                        *)
(***************************************************************************)
\* the requests of one stage, in the order they were made
RequestsOf(stage) == SelectSeq(fetch_log, LAMBDA r : r.stage = stage)
IdsOf(requests) == [i \in 1..Len(requests) |-> requests[i].id]

\* an exception that an identifier's failed fetch or extraction set off has
\* ended the run: the unguarded call of step 1, or a pd.concat that found
\* nothing to concatenate because every identifier of its stage had failed
StoppedByFailure ==
    /\ pc = "aborted"
    /\ \/ abortCause = "get_artist_albums"
       \/ abortCause = "concat_details" /\ DetailIds # <<>>
       \/ abortCause = "concat_tracks" /\ TrackListIds # <<>>
       \/ abortCause = "concat_lyrics" /\ LyricsIds # <<>>

\* C1: in each of the four stages a failed fetch or extraction for one
\* identifier only skips that identifier: it never stops the run, which goes
\* on to request every identifier of its stage and of the later stages.
C1_FailureNeverStopsRun ==
    /\ ~StoppedByFailure
    /\ pc \in {"step2", "step3", "step4", "done"} =>
           IdsOf(RequestsOf("artist_albums")) = artist_id_list

\* C8: the delay follows every call of the fetcher, failed or not: whenever a
\* request is made after an earlier one, the earlier one was followed by its
\* delay.
C8_DelayBetweenRequests ==
    [][(fetch_log' # fetch_log /\ fetch_log # <<>>) => slept]_vars

StageRank(stage) ==
    CASE stage = "artist_albums" -> 1
      [] stage = "album_details" -> 2
      [] stage = "album_tracks" -> 3
      [] stage = "track_lyrics" -> 4

\* C10: the stages run in the order album list, album detail, tracks, lyrics;
\* a stage makes its first request only after the stage before it has
\* requested every one of its identifiers; detail and track requests are for
\* album ids of the album table, lyrics requests for track ids of the track
\* table.
C10_StagesInOrder ==
    /\ \A i, j \in 1..Len(fetch_log) :
          i < j => StageRank(fetch_log[i].stage) <= StageRank(fetch_log[j].stage)
    /\ RequestsOf("album_details") # <<>> =>
          IdsOf(RequestsOf("artist_albums")) = artist_id_list
    /\ RequestsOf("album_tracks") # <<>> =>
          IdsOf(RequestsOf("album_details")) = DetailIds
    /\ RequestsOf("track_lyrics") # <<>> =>
          IdsOf(RequestsOf("album_tracks")) = TrackListIds
    /\ \A i \in 1..Len(fetch_log) :
          LET r == fetch_log[i]
              album_ids == {row.album_id : row \in {Flatten(artist_album_dfs)[k] :
                                k \in 1..Len(Flatten(artist_album_dfs))}}
              track_ids == {album_track_df[k].track_id : k \in 1..Len(album_track_df)}
          IN  /\ r.stage = "artist_albums" =>
                    \E k \in 1..Len(artist_id_list) : artist_id_list[k] = r.id
              /\ r.stage \in {"album_details", "album_tracks"} => r.id \in album_ids
              /\ r.stage = "track_lyrics" => r.id \in track_ids

\* a run that went through all four stages, with two lyrics requests
C10_Witness ==
    /\ pc = "done"
    /\ Len(RequestsOf("album_details")) >= 1
    /\ Len(RequestsOf("album_tracks")) >= 1
    /\ Len(RequestsOf("track_lyrics")) >= 2

(***************************************************************************)
(* get_artist_albums alone, on every shape of album block                  *)
(***************************************************************************)
\* album blocks that may lack any of their five parts
SparseBlocks ==
    [albumid : {PlainBlock.albumid, NoneVal},
     albumTitle : {PlainTitle, NoneVal},
     artist : {PlainArtist, NoneVal},
     time : {TimeTag, NoneVal},
     albumType : {TypeTag, NoneVal}]

AlbumListInit ==
    /\ page_response \in Responses(SeqsUpTo(SparseBlocks, MaxItems), <<>>)
    /\ extracted = <<>>
    /\ xpc = "called"
    /\ ScrapeIdle /\ CleanIdle /\ FilterIdle

\* lines 59-80
ExtractArtistAlbums ==
    /\ xpc = "called"
    /\ extracted' = get_artist_albums(ArtistIdPool[1], page_response)
    /\ xpc' = "returned"
    /\ UNCHANGED <<page_response, scrapeVars, cleanVars, filterVars>>

AlbumListNext == ExtractArtistAlbums

SpecAlbumList == AlbumListInit /\ [][AlbumListNext]_vars

\* C7: on a page whose album blocks all carry the album identifier, the
\* album-list extractor does not raise, whichever of the four descendants
\* (title, artist, release marker, type marker) a block lacks: it emits one
\* record per block, with an empty or null placeholder for each missing
\* field; and every record it emits has a non-null album_id.
C7_MissingDescendantsTolerated ==
    xpc = "returned" =>
        LET page == page_response.body
        IN  /\ ~extracted.raised =>
                  \A i \in 1..Len(extracted.df) : extracted.df[i].album_id # NoneVal
            /\ (/\ page_response.status_code = 200
                /\ \A i \in 1..Len(page) : page[i].albumid # NoneVal)
                  => /\ ~extracted.raised
                     /\ Len(extracted.df) = Len(page)
                     /\ \A i \in 1..Len(page) :
                           /\ page[i].albumTitle = NoneVal =>
                                  extracted.df[i].album_title \in {NoneVal, <<>>}
                           /\ page[i].artist = NoneVal =>
                                  extracted.df[i].artist_name \in {NoneVal, <<>>}
                           /\ page[i].time = NoneVal =>
                                  extracted.df[i].release_date \in {NoneVal, <<>>}
                           /\ page[i].albumType = NoneVal =>
                                  extracted.df[i].type \in {NoneVal, <<>>}

(***************************************************************************)
(* cleaning.py: the values of a track_id column.                           *)
(* k is the kind of the value: "int" and "float" (n is the number), "inf", *)
(* "nan" (missing) and "str" (s is the text).                              *)
(***************************************************************************)
IntId(n) == [k |-> "int", n |-> n, s |-> <<>>]
FloatId(n) == [k |-> "float", n |-> n, s |-> <<>>]
InfId == [k |-> "inf", n |-> 0, s |-> <<>>]
NullId == [k |-> "nan", n |-> 0, s |-> <<>>]
StrId(s) == [k |-> "str", n |-> 0, s |-> s]

DigitChars == <<"0","1","2","3","4","5","6","7","8","9">>
IsDigits(s) == s # <<>> /\ \A i \in 1..Len(s) : \E d \in DOMAIN DigitChars : DigitChars[d] = s[i]
DigitValue(c) == (CHOOSE d \in DOMAIN DigitChars : DigitChars[d] = c) - 1

RECURSIVE ParseInt(_)
\* the number a text of digits writes
ParseInt(s) ==
    IF s = <<>> THEN 0
    ELSE ParseInt(SubSeq(s, 1, Len(s) - 1)) * 10 + DigitValue(s[Len(s)])

RECURSIVE IntText(_)
\* str(n), n >= 0
IntText(n) ==
    IF n < 10 THEN <<DigitChars[n + 1]>>
    ELSE IntText(n \div 10) \o <<DigitChars[(n % 10) + 1]>>

InfText == <<"i","n","f">>
NanText == <<"n","a","n">>

\* the numeric dtypes (pd.api.types.is_numeric_dtype)
is_numeric_dtype(dtype) == dtype \in {"int64", "float64"}

\* pd.read_csv on the track_id cells of a file: the dtype it infers and the
\* values.  Digits parse as integers, inf as a float, an empty cell is
\* missing; a column with any other text stays text (object).
ReadCsvDtype(cells) ==
    IF cells = <<>> THEN "object"
    ELSE IF \A i \in 1..Len(cells) : IsDigits(cells[i]) THEN "int64"
    ELSE IF \A i \in 1..Len(cells) :
                IsDigits(cells[i]) \/ cells[i] = InfText \/ cells[i] = <<>>
         THEN "float64"
    ELSE "object"

ReadCsvValue(cell, dtype) ==
    IF cell = <<>> THEN NullId
    ELSE IF dtype = "int64" THEN IntId(ParseInt(cell))
    ELSE IF dtype = "float64"
         THEN (IF cell = InfText THEN InfId ELSE FloatId(ParseInt(cell)))
    ELSE StrId(cell)

\* a frame with a track_id column: the column's dtype and the rows
ReadCsv(file) ==
    LET dtype == ReadCsvDtype([i \in 1..Len(file) |-> file[i].track_id])
    IN  [dtype |-> dtype,
         rows |-> [i \in 1..Len(file) |->
                      [file[i] EXCEPT !.track_id = ReadCsvValue(file[i].track_id, dtype)]]]

\* pd.to_numeric(errors='coerce') on one value
ToNumericValue(v) ==
    IF v.k = "str"
    THEN (IF IsDigits(v.s) THEN IntId(ParseInt(v.s))
          ELSE IF v.s = InfText THEN InfId
          ELSE NullId)
    ELSE v

\* pd.to_numeric(errors='coerce') on the track_id column: int64 when every
\* value is an integer (and for an empty column), else float64
to_numeric(frame) ==
    LET vals == [i \in 1..Len(frame.rows) |-> ToNumericValue(frame.rows[i].track_id)]
        ints == \A i \in 1..Len(vals) : vals[i].k = "int"
    IN  [dtype |-> IF ints THEN "int64" ELSE "float64",
         rows |-> [i \in 1..Len(vals) |->
                      [frame.rows[i] EXCEPT !.track_id =
                          IF ~ints /\ vals[i].k = "int" THEN FloatId(vals[i].n) ELSE vals[i]]]]

\* astype(str) on one value
AsText(v) ==
    CASE v.k = "int" -> IntText(v.n)
      [] v.k = "float" -> IntText(v.n) \o <<".","0">>
      [] v.k = "inf" -> InfText
      [] v.k = "nan" -> NanText
      [] v.k = "str" -> v.s

\* astype(str) on the track_id column
astype_str(frame) ==
    [dtype |-> "object",
     rows |-> [i \in 1..Len(frame.rows) |->
                  [frame.rows[i] EXCEPT !.track_id = StrId(AsText(frame.rows[i].track_id))]]]

LoginLayer == <<"h","o","w","L","o","g","i","n","L","a","y","e","r">>

\* str.contains('howLoginLayer', na=False) on one track_id
HasLoginLayer(row) ==
    row.track_id.k = "str" /\ StrContains(row.track_id.s, {LoginLayer}, FALSE)

\* clean_track_ids, lines 69-90.  The .str accessor of line 70 raises
\* AttributeError on a column that is not text; astype('int64') of line 82
\* raises on a non-finite value, which the except of line 84 turns into the
\* text form of the column as lines 79 and 81 left it.
clean_track_ids(frame) ==
    IF frame.dtype # "object"
    THEN [raised |-> TRUE, dtype |-> frame.dtype, rows |-> frame.rows]
    ELSE
        LET login_layer_rows == SelectSeq(frame.rows, HasLoginLayer)
            kept == IF login_layer_rows # <<>>
                    THEN SelectSeq(frame.rows, LAMBDA r : ~HasLoginLayer(r))
                    ELSE frame.rows
            numeric == to_numeric([dtype |-> "object", rows |-> kept])
            dropped == SelectSeq(numeric.rows, LAMBDA r : r.track_id.k # "nan")
        IN  IF \E i \in 1..Len(dropped) : dropped[i].track_id.k = "inf"
            THEN [raised |-> FALSE, dtype |-> "object",
                  rows |-> [i \in 1..Len(dropped) |->
                      [dropped[i] EXCEPT !.track_id =
                          StrId(Strip(AsText(dropped[i].track_id), Whitespace))]]]
            ELSE [raised |-> FALSE, dtype |-> "int64",
                  rows |-> [i \in 1..Len(dropped) |->
                      [dropped[i] EXCEPT !.track_id = IntId(dropped[i].track_id.n)]]]

\* whether a merge takes two track_id values for the same key: numbers by
\* value, missing with missing
KeyEq(a, b) ==
    \/ a.k \in {"int", "float"} /\ b.k \in {"int", "float"} /\ a.n = b.n
    \/ a.k = "inf" /\ b.k = "inf"
    \/ a.k = "nan" /\ b.k = "nan"
    \/ a.k = "str" /\ b.k = "str" /\ a.s = b.s

\* line 183: album_df.merge(track_df, how='left', on='album_id').  A missing
\* track_id turns an int64 column into float64.
MergeTracks(albums, tracks) ==
    LET rows == LeftMerge(albums, tracks.rows,
                    LAMBDA a, t : a.album_id = t.album_id,
                    LAMBDA a, t : [album_id |-> a.album_id, album_title |-> a.album_title,
                                   artist_name |-> a.artist_name,
                                   track_id |-> t.track_id, track_title |-> t.track_title],
                    LAMBDA a : [album_id |-> a.album_id, album_title |-> a.album_title,
                                artist_name |-> a.artist_name,
                                track_id |-> NullId, track_title |-> NaN])
        missing == \E i \in 1..Len(rows) : rows[i].track_id.k = "nan"
    IN  IF tracks.dtype = "int64" /\ missing
        THEN [dtype |-> "float64",
              rows |-> [i \in 1..Len(rows) |->
                  [rows[i] EXCEPT !.track_id =
                      IF @.k = "int" THEN FloatId(@.n) ELSE @]]]
        ELSE [dtype |-> tracks.dtype, rows |-> rows]

\* lines 186-193 without the conversion of line 190
ReconcileLyricsUntouched(total, lyrics) ==
    IF total.dtype # lyrics.dtype /\ ~is_numeric_dtype(total.dtype)
    THEN [total |-> astype_str(total), lyrics |-> astype_str(lyrics)]
    ELSE [total |-> total, lyrics |-> lyrics]

\* lines 186-193: what the two frames are after the dtype check
Reconcile(total, lyrics) ==
    IF total.dtype # lyrics.dtype
    THEN IF is_numeric_dtype(total.dtype)
         THEN [total |-> total, lyrics |-> to_numeric(lyrics)]
         ELSE [total |-> astype_str(total), lyrics |-> astype_str(lyrics)]
    ELSE [total |-> total, lyrics |-> lyrics]

\* line 196: df_total.merge(lyrics_df, how='left', on='track_id'); pandas
\* refuses to merge a numeric key column with a text one
MergeLyricsRaises(total, lyrics) ==
    is_numeric_dtype(total.dtype) # is_numeric_dtype(lyrics.dtype)

MergeLyrics(total, lyrics) ==
    [dtype |-> total.dtype,
     rows |-> LeftMerge(total.rows, lyrics.rows,
                  LAMBDA t, l : KeyEq(t.track_id, l.track_id),
                  LAMBDA t, l : [album_id |-> t.album_id, album_title |-> t.album_title,
                                 artist_name |-> t.artist_name, track_id |-> t.track_id,
                                 track_title |-> t.track_title,
                                 duration |-> l.duration, lyrics |-> l.lyrics],
                  LAMBDA t : [album_id |-> t.album_id, album_title |-> t.album_title,
                              artist_name |-> t.artist_name, track_id |-> t.track_id,
                              track_title |-> t.track_title,
                              duration |-> NaN, lyrics |-> NaN])]

(***************************************************************************)
(* clean_html_tags and filter_data on the text columns.  A text column     *)
(* holds texts and, where a join found no match, NaN.                      *)
(***************************************************************************)
\* astype(str) on one value of a text column
AsStr(x) == IF x = NaN THEN NanText ELSE x

\* lines 121-124: line breaks to spaces, then strip
CleanText(x) == Strip(Replace(AsStr(x), <<"\r","\n">>, <<" ">>), Whitespace)

\* line 118: the text before the first '\n\n\r\n'
ArtistNameClean(x) == SplitFirst(AsStr(x), <<"\n","\n","\r","\n">>)

\* clean_html_tags on the columns the merged frame carries here
clean_html_tags(rows) ==
    [i \in 1..Len(rows) |->
        [album_id |-> rows[i].album_id, album_title |-> rows[i].album_title,
         artist_name |-> rows[i].artist_name, track_id |-> rows[i].track_id,
         duration |-> rows[i].duration,
         artist_name_clean |-> ArtistNameClean(rows[i].artist_name),
         track_title |-> CleanText(rows[i].track_title),
         lyrics |-> CleanText(rows[i].lyrics)]]

\* line 154: 'remix|japan|<ilbon>|inst|repackage|chinese| ver.'
album_patterns ==
    { <<"r","e","m","i","x">>, <<"j","a","p","a","n">>, <<"il","bon">>,
      <<"i","n","s","t">>, <<"r","e","p","a","c","k","a","g","e">>,
      <<"c","h","i","n","e","s","e">>, <<" ","v","e","r",".">> }

\* line 160: '<gwonrieopneun>|remix|japan|chinese| inst | ver.'
song_patterns ==
    { <<"gwon","ri","eop","neun">>, <<"r","e","m","i","x">>, <<"j","a","p","a","n">>,
      <<"c","h","i","n","e","s","e">>, <<" ","i","n","s","t"," ">>,
      <<" ","v","e","r",".">> }

\* line 142
FilterVariousArtists(rows) ==
    SelectSeq(rows, LAMBDA r : r.artist_name # VariousArtists)

\* lines 148-149: a missing value is neither '' nor 'nan'
FilterEmptyLyrics(rows) ==
    SelectSeq(SelectSeq(rows, LAMBDA r : r.lyrics = NaN \/ Strip(r.lyrics, Whitespace) # <<>>),
              LAMBDA r : r.lyrics # NanText)

\* the step of line 156 taking its rows from the frame filter_data was given
FilterAlbumTitlesOfInput(rows) ==
    SelectSeq(df_in, LAMBDA r :
        ~(r.album_title # NaN /\ StrContains(r.album_title, album_patterns, TRUE)))

\* line 156: case=False, na=False
FilterAlbumTitles(rows) ==
    SelectSeq(rows, LAMBDA r :
        ~(r.album_title # NaN /\ StrContains(r.album_title, album_patterns, TRUE)))

\* line 162
FilterTrackTitles(rows) ==
    SelectSeq(rows, LAMBDA r :
        ~(r.track_title # NaN /\ StrContains(r.track_title, song_patterns, TRUE)))

\* filter_data, lines 141-165: the four steps in the order of the code
filter_data(rows) ==
    FilterTrackTitles(FilterAlbumTitles(FilterEmptyLyrics(FilterVariousArtists(rows))))

(***************************************************************************)
(* process_data                                                            *)
(***************************************************************************)
AlbumNumbers == {1, 2}

\* what get_album_tracks makes of the login onclick: howLoginLayer();
LoginLayerId == TrackIdOf(LoginOnclick)

\* the track_id cells of the files: two identifiers, the login-layer text, an
\* empty cell and a non-finite number
TrackIdCells == { <<"3","1">>, <<"9","2">>, LoginLayerId, <<>>, InfText }

AlbumFileRows == [album_id : AlbumNumbers, album_title : {<<"A">>}, artist_name : {<<"G">>}]
TrackFileRows == [album_id : AlbumNumbers, track_id : TrackIdCells, track_title : {<<"S">>}]
LyricsFileRows ==
    [track_id : TrackIdCells, duration : {<<"3",":","1","5">>}, lyrics : {<<"l","a">>}]

\* the three files as the scraper (or anyone) left them
CleanInit ==
    /\ \E a \in 0..MaxFileRows : \E t \in 0..(MaxFileRows - a) :
          \E l \in 0..(MaxFileRows - a - t) :
              /\ album_file \in [1..a -> AlbumFileRows]
              /\ track_file \in [1..t -> TrackFileRows]
              /\ lyrics_file \in [1..l -> LyricsFileRows]
    /\ album_df = <<>> /\ track_df = <<>> /\ lyrics_df = <<>> /\ df_total = <<>>
    /\ cpc = "load"
    /\ once = <<>> /\ twice = <<>>
    /\ ScrapeIdle /\ AlbumListIdle /\ FilterIdle

\* line 176
LoadData ==
    /\ cpc = "load"
    /\ album_df' = album_file
    /\ track_df' = ReadCsv(track_file)
    /\ lyrics_df' = ReadCsv(lyrics_file)
    /\ cpc' = "clean"
    /\ UNCHANGED <<album_file, track_file, lyrics_file, df_total, once, twice>>
    /\ UNCHANGED <<scrapeVars, albumListVars, filterVars>>

\* line 179 with the result dropped: track_df stays as loaded
UncleanedTracks == [raised |-> FALSE, dtype |-> track_df.dtype, rows |-> track_df.rows]

\* line 179: what track_df is assigned
CleanedTracks == clean_track_ids(track_df)

\* line 179; an exception ends process_data at line 212
CleanTrackIds ==
    /\ cpc = "clean"
    /\ IF CleanedTracks.raised
       THEN cpc' = "failed" /\ UNCHANGED track_df
       ELSE /\ track_df' = [dtype |-> CleanedTracks.dtype, rows |-> CleanedTracks.rows]
            /\ cpc' = "merge_tracks"
    /\ UNCHANGED <<album_file, track_file, lyrics_file, album_df, lyrics_df, df_total,
                   once, twice>>
    /\ UNCHANGED <<scrapeVars, albumListVars, filterVars>>

\* line 183
MergeAlbumTracks ==
    /\ cpc = "merge_tracks"
    /\ df_total' = MergeTracks(album_df, track_df)
    /\ cpc' = "reconcile"
    /\ UNCHANGED <<album_file, track_file, lyrics_file, album_df, track_df, lyrics_df,
                   once, twice>>
    /\ UNCHANGED <<scrapeVars, albumListVars, filterVars>>

\* lines 186-193
ReconcileTrackIds ==
    /\ cpc = "reconcile"
    /\ df_total' = Reconcile(df_total, lyrics_df).total
    /\ lyrics_df' = Reconcile(df_total, lyrics_df).lyrics
    /\ cpc' = "merge_lyrics"
    /\ UNCHANGED <<album_file, track_file, lyrics_file, album_df, track_df, once, twice>>
    /\ UNCHANGED <<scrapeVars, albumListVars, filterVars>>

\* line 196
MergeWithLyrics ==
    /\ cpc = "merge_lyrics"
    /\ IF MergeLyricsRaises(df_total, lyrics_df)
       THEN cpc' = "failed" /\ UNCHANGED df_total
       ELSE /\ df_total' = MergeLyrics(df_total, lyrics_df)
            /\ cpc' = "merged"
    /\ UNCHANGED <<album_file, track_file, lyrics_file, album_df, track_df, lyrics_df,
                   once, twice>>
    /\ UNCHANGED <<scrapeVars, albumListVars, filterVars>>

\* lines 200-210: sanitise, filter, save and return the frame
CleanAndFilter ==
    /\ cpc = "merged"
    /\ df_total' = [dtype |-> df_total.dtype,
                    rows |-> filter_data(clean_html_tags(df_total.rows))]
    /\ cpc' = "done"
    /\ UNCHANGED <<album_file, track_file, lyrics_file, album_df, track_df, lyrics_df,
                   once, twice>>
    /\ UNCHANGED <<scrapeVars, albumListVars, filterVars>>

CleanNext ==
    \/ LoadData
    \/ CleanTrackIds
    \/ MergeAlbumTracks
    \/ ReconcileTrackIds
    \/ MergeWithLyrics
    \/ CleanAndFilter

SpecClean == CleanInit /\ [][CleanNext]_vars

(***************************************************************************)
(* Properties of process_data                                              *)
(***************************************************************************)
AfterClean == {"merge_tracks", "reconcile", "merge_lyrics", "merged", "done"}

\* the track file has a row whose track_id carries the login-layer text
FileHasLoginLayer ==
    \E i \in 1..Len(track_file) : StrContains(track_file[i].track_id, {LoginLayer}, FALSE)

\* C2: no row whose track_id contains the login-layer text is in the track
\* table clean_track_ids returned, nor in the merged dataset of a run of
\* process_data that produces one.
C2_NoLoginLayerSurvives ==
    /\ cpc \in AfterClean =>
          \A i \in 1..Len(track_df.rows) : ~HasLoginLayer(track_df.rows[i])
    /\ cpc \in {"reconcile", "merge_lyrics", "merged", "done"} =>
          \A i \in 1..Len(df_total.rows) : ~HasLoginLayer(df_total.rows[i])

\* a finished run whose track file had a login-layer row and whose dataset
\* still has a row
C2_Witness ==
    /\ cpc = "done"
    /\ FileHasLoginLayer
    /\ df_total.rows # <<>>

\* C4: every album_id of the album table is in at least one row of the frame
\* the joins produce, before the filter; the track and lyrics columns of an
\* album that matches nothing are missing values.
C4_LeftPreserving ==
    cpc \in {"reconcile", "merge_lyrics", "merged"} =>
        \A i \in 1..Len(album_df) :
            \E j \in 1..Len(df_total.rows) :
                /\ df_total.rows[j].album_id = album_df[i].album_id
                /\ (\A t \in 1..Len(track_df.rows) :
                        track_df.rows[t].album_id # album_df[i].album_id)
                      => /\ df_total.rows[j].track_id.k = "nan"
                         /\ df_total.rows[j].track_title = NaN

\* C5: the joins fabricate no row: the merged frame has one row per
\* (album, track) pair of the album-track join, whatever the lyrics table
\* holds, and lyrics are attached only to a row whose track_id is an
\* identifier of the cleaned track table.
C5_NoFabricatedRows ==
    cpc = "merged" =>
        /\ Len(df_total.rows) = Len(MergeTracks(album_df, track_df).rows)
        /\ \A j \in 1..Len(df_total.rows) :
              df_total.rows[j].lyrics # NaN =>
                  \E t \in 1..Len(track_df.rows) :
                      /\ track_df.rows[t].track_id.k # "nan"
                      /\ KeyEq(track_df.rows[t].track_id, df_total.rows[j].track_id)

\* how a dtype represents its values
Representation(dtype) == IF is_numeric_dtype(dtype) THEN "numeric" ELSE "text"

\* C6: when the lyrics join is performed the two track_id columns have the
\* same representation, both numeric (every value a number or missing) or
\* both text (every value a text or missing), whatever representations the
\* two files were read in.
C6_SameRepresentation ==
    cpc = "merge_lyrics" =>
        /\ Representation(df_total.dtype) = Representation(lyrics_df.dtype)
        /\ Representation(df_total.dtype) = "numeric" =>
              /\ \A i \in 1..Len(df_total.rows) : df_total.rows[i].track_id.k # "str"
              /\ \A i \in 1..Len(lyrics_df.rows) : lyrics_df.rows[i].track_id.k # "str"
        /\ Representation(df_total.dtype) = "text" =>
              /\ \A i \in 1..Len(df_total.rows) :
                    df_total.rows[i].track_id.k \in {"str", "nan"}
              /\ \A i \in 1..Len(lyrics_df.rows) :
                    lyrics_df.rows[i].track_id.k \in {"str", "nan"}

\* the lyrics file was read as text, the album-track frame is numeric, and
\* the lyrics column has been converted
C6_Witness ==
    /\ cpc = "merge_lyrics"
    /\ ReadCsv(lyrics_file).dtype = "object"
    /\ lyrics_file # <<>>
    /\ df_total.dtype = "float64"
    /\ lyrics_df.dtype = "float64"

(***************************************************************************)
(* clean_track_ids applied to its own result                               *)
(***************************************************************************)
CleanTwiceInit ==
    /\ track_file \in SeqsUpTo(TrackFileRows, MaxFileRows)
    /\ album_file = <<>> /\ lyrics_file = <<>>
    /\ album_df = <<>> /\ track_df = <<>> /\ lyrics_df = <<>> /\ df_total = <<>>
    /\ cpc = "apply"
    /\ once = <<>> /\ twice = <<>>
    /\ ScrapeIdle /\ AlbumListIdle /\ FilterIdle

\* clean_track_ids on the table as read
CleanOnce ==
    /\ cpc = "apply"
    /\ track_df' = ReadCsv(track_file)
    /\ once' = clean_track_ids(ReadCsv(track_file))
    /\ cpc' = "once"
    /\ UNCHANGED <<album_file, track_file, lyrics_file, album_df, lyrics_df, df_total, twice>>
    /\ UNCHANGED <<scrapeVars, albumListVars, filterVars>>

\* clean_track_ids on the table it returned
CleanAgain ==
    /\ cpc = "once"
    /\ ~once.raised
    /\ twice' = clean_track_ids([dtype |-> once.dtype, rows |-> once.rows])
    /\ cpc' = "twice"
    /\ UNCHANGED <<album_file, track_file, lyrics_file, album_df, track_df, lyrics_df,
                   df_total, once>>
    /\ UNCHANGED <<scrapeVars, albumListVars, filterVars>>

CleanTwiceNext == CleanOnce \/ CleanAgain

SpecCleanTwice == CleanTwiceInit /\ [][CleanTwiceNext]_vars

\* C3: cleaning is idempotent: clean_track_ids on the table clean_track_ids
\* returned completes and returns the same table; and on a table whose track
\* ids are all numeric already it completes and returns that table.
C3_CleaningIdempotent ==
    /\ cpc = "twice" =>
          /\ ~twice.raised
          /\ twice.rows = once.rows
          /\ twice.dtype = once.dtype
    /\ (cpc \in {"once", "twice"} /\ track_df.dtype = "int64") =>
          /\ ~once.raised
          /\ once.rows = track_df.rows

(***************************************************************************)
(* filter_data, its four steps taken in any order                          *)
(***************************************************************************)
\* the values of the four columns filter_data reads: the columns are text
\* columns, as the .str accessor of lines 148, 156 and 162 requires
FrameRows ==
    [artist_name : {PlainArtist, VariousArtists},
     lyrics : {<<"l","a">>, <<" ">>, NanText},
     album_title : {<<"A">>, <<"A"," ","R","e","m","i","x">>, NaN},
     track_title : {<<"S">>, <<"S"," ","V","e","r","2">>}]

Steps == {"artist_name", "lyrics", "album_title", "track_title"}

FilterInit ==
    /\ df_in \in SeqsUpTo(FrameRows, MaxFrameRows)
    /\ df = df_in
    /\ applied = {}
    /\ ScrapeIdle /\ AlbumListIdle /\ CleanIdle

\* lines 141-143, on the frame as the steps before it left it
StepVariousArtists ==
    /\ "artist_name" \notin applied
    /\ df' = FilterVariousArtists(df)
    /\ applied' = applied \cup {"artist_name"}
    /\ UNCHANGED df_in
    /\ UNCHANGED <<scrapeVars, albumListVars, cleanVars>>

\* lines 146-150, on the frame as the steps before it left it
StepEmptyLyrics ==
    /\ "lyrics" \notin applied
    /\ df' = FilterEmptyLyrics(df)
    /\ applied' = applied \cup {"lyrics"}
    /\ UNCHANGED df_in
    /\ UNCHANGED <<scrapeVars, albumListVars, cleanVars>>

\* lines 153-157, on the frame as the steps before it left it
StepAlbumTitles ==
    /\ "album_title" \notin applied
    /\ df' = FilterAlbumTitles(df)
    /\ applied' = applied \cup {"album_title"}
    /\ UNCHANGED df_in
    /\ UNCHANGED <<scrapeVars, albumListVars, cleanVars>>

\* lines 159-163, on the frame as the steps before it left it
StepTrackTitles ==
    /\ "track_title" \notin applied
    /\ df' = FilterTrackTitles(df)
    /\ applied' = applied \cup {"track_title"}
    /\ UNCHANGED df_in
    /\ UNCHANGED <<scrapeVars, albumListVars, cleanVars>>

FilterNext ==
    \/ StepVariousArtists
    \/ StepEmptyLyrics
    \/ StepAlbumTitles
    \/ StepTrackTitles

SpecFilter == FilterInit /\ [][FilterNext]_vars

RECURSIVE IsSubseq(_, _)
\* s is t with some rows left out: the rows of s are rows of t, unchanged and
\* in t's order
IsSubseq(s, t) ==
    IF s = <<>> THEN TRUE
    ELSE IF t = <<>> THEN FALSE
    ELSE IF Head(s) = Head(t) THEN IsSubseq(Tail(s), Tail(t))
    ELSE IsSubseq(s, Tail(t))

\* C9: the steps of filter_data only remove rows, the rows that stay are rows
\* of the input, unchanged and in its order; and once the four steps have
\* been applied, in whatever order, the frame is the one filter_data returns.
C9_FilterOrderIndependent ==
    /\ IsSubseq(df, df_in)
    /\ applied = Steps => df = filter_data(df_in)

\* the four steps applied to a full frame that each of them, taken alone,
\* removes a row of, and nothing is left
C9_Witness ==
    /\ applied = Steps
    /\ df = <<>>
    /\ Len(df_in) = MaxFrameRows
    /\ \A name \in Steps : \E i \in 1..Len(df_in) :
          \/ name = "artist_name" /\ FilterVariousArtists(<<df_in[i]>>) = <<>>
          \/ name = "lyrics" /\ FilterEmptyLyrics(<<df_in[i]>>) = <<>>
          \/ name = "album_title" /\ FilterAlbumTitles(<<df_in[i]>>) = <<>>
          \/ name = "track_title" /\ FilterTrackTitles(<<df_in[i]>>) = <<>>

====
